---- MODULE Spec2Model ----
(***************************************************************************)
(* A model of the pattern-bench harness: scan_bench (the guarded region,   *)
(* the scenario generator, the verifier) and main (the executor loop and   *)
(* the final ranking).                                                     *)
(*                                                                         *)
(* Sizes are scaled down: the page size, the byte alphabet, the pattern    *)
(* length range, the window jitter, the occurrence count, the scenario     *)
(* count and the width of size_t are small numbers standing for 4096,      *)
(* 0..255, 5..32, 0..100, 2..10, 512 and 2^64.  The relation the source    *)
(* relies on, jitter + pattern length <= page size, is kept.               *)
(***************************************************************************)
EXTENDS Integers, Sequences, FiniteSets, TLC

\* ------------------------------------------------------------------ bounds
PageSize     == 3      \* mem::page_size()
ByteMax      == 1      \* bytes are 0..ByteMax (0..0xFF in the source)
LenMin       == 1      \* length_dist(5, 32), lower end
LenMax       == 2      \* length_dist(5, 32), upper end
CountMin     == 2      \* count_dist(2, 10), lower end, as in the source
CountMax     == 2      \* count_dist(2, 10), upper end
TEST_COUNT   == 2      \* 512 in the source
NumScanners  == 2      \* number of REGISTER_PATTERN entries
MaxCycles    == 2      \* one rdtsc difference is 1..MaxCycles
MaxSeed      == 2      \* seeds and random_device values are 0..MaxSeed
RngMod       == 2039   \* modulus of the generator standing for minstd_rand0/mt19937
RngMul       == 7      \* its multiplier
StateWords   == 2      \* words drawn to seed the twister (624 in the source)
MaxSmallFile == 1      \* the files main is run on hold 0..MaxSmallFile bytes
MaxPasses    == 2      \* passes of the mask loop in one generate()
MaxResults   == 3      \* a scanner under check returns at most MaxResults addresses

\* size_dist(0, 100): the jitter, scaled so that, as in the source
\* (100 + 32 <= 4096), a window of one page holds the longest pattern
MaxVariation == PageSize - LenMax

SizeMod      == 5 * PageSize      \* size_t and pointers wrap modulo SizeMod
RawBase      == PageSize          \* address protect_alloc returns
MaxFileSize  == PageSize + 1      \* input files hold 0..MaxFileSize bytes
REGION_SIZE  == PageSize          \* 64 MiB in the source: whole pages
RNG_SEED     == 0

Bytes    == 0..ByteMax
Scanners == 1..NumScanners
\* a const byte* argument: the null pointer, or a pointer to the bytes c
NULL     == [null |-> TRUE, bytes |-> <<>>]
Pointer(c) == [null |-> FALSE, bytes |-> c]

\* ----------------------------------------------------------------- helpers
\* all sequences over S of length n, of length 0..n
SeqsOfLen(S, n) == [1..n -> S]

SeqsUpTo(S, n) == UNION {SeqsOfLen(S, k) : k \in 0..n}

Range(q) == {q[i] : i \in 1..Len(q)}

RECURSIVE Ascending(_)
\* the elements of a finite set of integers, in ascending order
Ascending(S) ==
    IF S = {} THEN <<>>
    ELSE LET m == CHOOSE x \in S : \A y \in S : x <= y
         IN  <<m>> \o Ascending(S \ {m})

\* std::vector::resize / std::string::resize: keep the prefix, pad with fill
Resize(q, n, fill) == [i \in 1..n |-> IF i <= Len(q) THEN q[i] ELSE fill]

\* ------------------------------------------------------------- scan_bench
\* The fields of scan_bench.  mem holds the bytes of the usable region,
\* mem[i] being the byte at address full_data_ + i - 1.
NewBench ==
    [raw_data_ |-> 0, raw_size_ |-> 0, full_data_ |-> 0, full_size_ |-> 0,
     data_ |-> 0, size_ |-> 0, pattern_ |-> <<>>, masks_ |-> <<>>,
     expected_ |-> {}, mem |-> <<>>]

\* (a reset that copies the content to the front and pads behind it)
reset_left_aligned(b, region_data, region_size, fill, alloc_ok) ==
    LET page_size == PageSize
        full      == ((region_size + page_size - 1) \div page_size) * page_size
        raw_data  == IF alloc_ok THEN RawBase ELSE 0
    IN  [b EXCEPT
           !.full_size_ = full,
           !.raw_size_  = full + (page_size * 2),
           !.raw_data_  = raw_data,
           !.full_data_ = raw_data + page_size,
           !.mem = IF ~region_data.null
                   THEN [i \in 1..full |-> IF i <= region_size THEN region_data.bytes[i]
                                           ELSE 0]
                   ELSE [i \in 1..full |-> fill[i]]]

\* reset(const byte*, size_t).  region_data is NULL or the supplied bytes,
\* fill the bytes byte_dist(rng_) yields, alloc_ok whether protect_alloc
\* returned memory.
reset(b, region_data, region_size, fill, alloc_ok) ==
    LET page_size == PageSize
        full      == ((region_size + page_size - 1) \div page_size) * page_size
        raw_size  == full + (page_size * 2)
        raw_data  == IF alloc_ok THEN RawBase ELSE 0
        extra     == full - region_size
    IN  [b EXCEPT
           !.full_size_ = full,
           !.raw_size_  = raw_size,
           !.raw_data_  = raw_data,
           !.full_data_ = raw_data + page_size,
           !.mem = IF ~region_data.null
                   THEN [i \in 1..full |-> IF i <= extra THEN 0
                                           ELSE region_data.bytes[i - extra]]
                   ELSE [i \in 1..full |-> fill[i]]]

\* addresses of the usable region, of the two guard pages
Usable(b) ==
    IF b.raw_data_ = 0 THEN {}
    ELSE b.full_data_ .. (b.full_data_ + b.full_size_ - 1)

GuardPages(b) ==
    IF b.raw_data_ = 0 THEN {}
    ELSE (b.raw_data_ .. (b.raw_data_ + PageSize - 1))
         \cup ((b.raw_data_ + b.raw_size_ - PageSize) .. (b.raw_data_ + b.raw_size_ - 1))

\* the window [data, data + size) as the set of addresses it covers
Window(b) == {(b.data_ + k) % SizeMod : k \in 0..(b.size_ - 1)}

ByteAt(b, addr) == b.mem[addr - b.full_data_ + 1]

\* generate(), lines 201-206: the window
generate_window(b, variation) ==
    [b EXCEPT !.data_ = (b.full_data_ + variation) % SizeMod,
              !.size_ = (b.full_size_ - variation) % SizeMod]

\* generate(), lines 210-215: the pattern length
generate_length(b, pattern_length) ==
    [b EXCEPT !.pattern_ = Resize(b.pattern_, pattern_length, 0),
              !.masks_   = Resize(b.masks_, pattern_length, "nul")]

\* generate(), lines 223-237: one pass of the for loop.  draws[i] is
\* <<TRUE, byte>> when mask_dist came out true at position i, <<FALSE, 0>>
\* otherwise.
generate_pass(b, draws) ==
    [b EXCEPT !.pattern_ = [i \in 1..Len(b.pattern_) |->
                               IF draws[i][1] THEN draws[i][2] ELSE 0],
              !.masks_   = [i \in 1..Len(b.masks_) |->
                               IF draws[i][1] THEN "x" ELSE "?"]]

\* all_masks after a pass: cleared by the first fixed position, never set again
pass_all_masks(all_masks, draws) ==
    all_masks /\ \A i \in 1..Len(draws) : ~draws[i][1]

PassDraws(len) ==
    SeqsOfLen({<<TRUE, v>> : v \in Bytes} \cup {<<FALSE, 0>>}, len)

\* range_dist(0, size() - pattern_.size()): the offsets a stamp can get
StampRange(b) == 0 .. ((b.size_ - Len(b.pattern_)) % SizeMod)

\* the addresses one stamp writes: data_[offset + j] for masks_[j] != '?'
StampWrites(b, offset) ==
    {(b.data_ + offset + j - 1) % SizeMod : j \in {k \in 1..Len(b.masks_) : b.masks_[k] # "?"}}

\* generate(), lines 250-254: one stamp, on the bytes of the usable region
generate_stamp(b, offset) ==
    [b EXCEPT !.mem = [i \in 1..Len(b.mem) |->
        LET addr == b.full_data_ + i - 1
            hits == {j \in 1..Len(b.masks_) :
                        /\ b.masks_[j] # "?"
                        /\ (b.data_ + offset + j - 1) % SizeMod = addr}
        IN  IF hits = {} THEN b.mem[i]
            ELSE b.pattern_[CHOOSE j \in hits : TRUE]]]

\* strlen(masks): the length the oracle and the scanners see
MaskLen(masks) ==
    IF \E i \in 1..Len(masks) : masks[i] = "nul"
    THEN (CHOOSE i \in 1..Len(masks) :
             masks[i] = "nul" /\ \A k \in 1..(i - 1) : masks[k] # "nul") - 1
    ELSE Len(masks)

\* FindPatternSimple(data, length, pattern, masks): every start where the
\* pattern fits and all fixed positions match, as addresses in scan order
FindPatternSimple(b, data, length, pattern, masks) ==
    LET n == MaskLen(masks)
    IN  Ascending({data + o : o \in {s \in 0..(length - n) :
            \A j \in 1..n : masks[j] = "?" \/ ByteAt(b, data + s + j - 1) = pattern[j]}})

\* shift_results: result - data() as size_t, collected into a set
shift_results(b, results) ==
    {(results[i] - b.data_) % SizeMod : i \in 1..Len(results)}

\* (an expected set of the addresses themselves, the shift forgotten)
generate_expected_unshifted(b) ==
    [b EXCEPT !.expected_ =
        Range(FindPatternSimple(b, b.data_, b.size_, b.pattern_, b.masks_))]

\* generate(), line 257
generate_expected(b) ==
    [b EXCEPT !.expected_ =
        shift_results(b, FindPatternSimple(b, b.data_, b.size_, b.pattern_, b.masks_))]

\* (a check of the two sizes alone)
check_results_by_size(b, results) ==
    Cardinality(shift_results(b, results)) = Cardinality(b.expected_)

\* check_results, without its logging
check_results(b, results) ==
    LET shifted == shift_results(b, results)
    IN  IF Cardinality(shifted) # Cardinality(b.expected_) THEN FALSE
        ELSE IF \E result \in shifted : result \notin b.expected_ THEN FALSE
        ELSE TRUE


\* ------------------------------------------------------------------ state
VARIABLES
    pc,            \* where main is
    env,           \* what the platform does: file_ok, alloc_ok, protect_ok
    source,        \* argv: [file |-> FALSE] or [file |-> TRUE, bytes |-> ...]
    reg,           \* main's scan_bench
    before,        \* history: the region bytes when the last generate() began
    stamped,       \* history: the offsets the last generate() stamped
    written,       \* history: the addresses the last generate() wrote
    passes_run,    \* history: the passes the mask loop of the last generate() made
    test_i,        \* main: scenario index i
    scan_k,        \* main: position in PATTERNS of the scanner to run next
    PATTERNS,      \* the registry, a sequence of scanners
    Failed,        \* pattern_scanner::Failed of each scanner
    Elapsed,       \* pattern_scanner::Elapsed of each scanner
    calls,         \* history: the <<scenario, scanner>> invocations so far
    faulted,       \* history: whether a Scan call has thrown
    misses,        \* history: per scanner, scenarios it faulted in or got wrong
    results,       \* the last list handed to check_results
    verdict,       \* what check_results returned for it
    twin           \* two replayed runs, see SpecReplay

genVars  == <<before, stamped, written, passes_run>>
mainVars == <<test_i, scan_k, PATTERNS, Failed, Elapsed, calls, faulted, misses>>
chkVars  == <<results, verdict>>
vars     == <<pc, env, source, reg, genVars, mainVars, chkVars, twin>>

Envs ==
    {[file_ok |-> TRUE,  alloc_ok |-> TRUE,  protect_ok |-> TRUE],
     [file_ok |-> FALSE, alloc_ok |-> TRUE,  protect_ok |-> TRUE],
     [file_ok |-> TRUE,  alloc_ok |-> FALSE, protect_ok |-> TRUE],
     [file_ok |-> TRUE,  alloc_ok |-> TRUE,  protect_ok |-> FALSE]}

Sources ==
    {[file |-> FALSE, bytes |-> <<>>]}
    \cup {[file |-> TRUE, bytes |-> c] : c \in SeqsUpTo(Bytes, MaxFileSize)}

Registration == [i \in 1..NumScanners |-> i]

\* the process before main runs, its input drawn from the given sources
Start(sources, envs) ==
    /\ pc = "main"
    /\ env \in envs
    /\ source \in sources
    /\ ~env.file_ok => (source.file /\ source.bytes = <<>>)
    /\ reg = NewBench
    /\ before = <<>>
    /\ stamped = {}
    /\ written = {}
    /\ passes_run = 0
    /\ test_i = 0
    /\ scan_k = 1
    /\ PATTERNS = Registration
    /\ Failed = [s \in Scanners |-> 0]
    /\ Elapsed = [s \in Scanners |-> 0]
    /\ calls = <<>>
    /\ faulted = FALSE
    /\ misses = [s \in Scanners |-> 0]
    /\ results = <<>>
    /\ verdict = TRUE
    /\ twin = <<>>

\* main is run on random data and on the files of at most MaxSmallFile bytes
SmallSources == {src \in Sources : Len(src.bytes) <= MaxSmallFile}

\* ... on a platform whose page protection works
MainEnvs == {e \in Envs : e.protect_ok}

Init == Start(SmallSources, MainEnvs)

\* ------------------------------------------------------------------- main
\* read_file: the bytes of the file; a file that cannot be read leaves the
\* stream failed, tellg() is -1, and either the buffer of (size_t)-1 bytes
\* cannot be allocated or read() fails and the buffer is resized to 0.
read_file(src, file_ok) ==
    IF file_ok THEN {[threw |-> FALSE, bytes |-> src.bytes]}
    ELSE {[threw |-> FALSE, bytes |-> <<>>], [threw |-> TRUE, bytes |-> <<>>]}

\* main, lines 304-321: reg.reset(file_name) or reg.reset(REGION_SIZE)
Reset ==
    /\ pc = "main"
    /\ \E file \in read_file(source, env.file_ok),
          fill \in SeqsOfLen(Bytes, REGION_SIZE) :
         IF source.file /\ file.threw
         THEN /\ pc' = "terminated"
              /\ reg' = reg
         ELSE LET b == IF source.file
                       THEN reset(reg, Pointer(file.bytes), Len(file.bytes), fill, env.alloc_ok)
                       ELSE reset(reg, NULL, REGION_SIZE, fill, env.alloc_ok)
              IN  \* memset, memcpy and generate_n write through full_data_
                  IF ~env.alloc_ok /\ b.full_size_ > 0
                  THEN /\ pc' = "crashed"
                       /\ reg' = [b EXCEPT !.mem = <<>>]
                  ELSE /\ pc' = "generate"
                       /\ reg' = b
    /\ UNCHANGED <<env, source, genVars, mainVars, chkVars, twin>>

\* (a loop that never retries)
pattern_loop_once(b, passes, all_masks) ==
    [bench |-> generate_pass(b, Head(passes)), spinning |-> FALSE,
     left |-> Len(passes) - 1]

\* generate(), lines 221-238: the do-while loop over the passes the stream
\* yields.  It stops after the first pass that clears all_masks; spinning
\* says the passes ran out with the loop still going.
RECURSIVE pattern_loop(_, _, _)
pattern_loop(b, passes, all_masks) ==
    LET b1 == generate_pass(b, Head(passes))
        am == pass_all_masks(all_masks, Head(passes))
    IN  IF ~am THEN [bench |-> b1, spinning |-> FALSE, left |-> Len(passes) - 1]
        ELSE IF Len(passes) = 1 THEN [bench |-> b1, spinning |-> TRUE, left |-> 0]
        ELSE pattern_loop(b1, Tail(passes), am)

\* generate(), lines 246-255: the stamping loop.  A write to a protected
\* guard page traps; a write outside the allocation is undefined: it traps
\* (trap) or leaves the process in an unknown state.
RECURSIVE stamp_loop(_, _, _, _, _)
stamp_loop(r, offsets, i, guarded, trap) ==
    IF i > Len(offsets) THEN r
    ELSE LET w     == StampWrites(r.bench, offsets[i])
             bad   == w \ Usable(r.bench)
             stray == \E a \in bad : a \notin GuardPages(r.bench)
             traps == \/ \E a \in bad : a \in GuardPages(r.bench) /\ guarded
                      \/ stray /\ trap
             r1    == [r EXCEPT !.bench   = generate_stamp(r.bench, offsets[i]),
                                !.stamped = r.stamped \cup {offsets[i]},
                                !.written = r.written \cup w]
         IN  IF traps THEN [r1 EXCEPT !.end = "crashed"]
             ELSE IF stray THEN [r1 EXCEPT !.end = "undefined"]
             ELSE stamp_loop(r1, offsets, i + 1, guarded, trap)

\* generate(), line 257: the oracle reads the whole window; a window that
\* leaves the usable region makes it read a guard page or foreign memory
oracle_step(r) ==
    IF r.end # "returned" THEN r
    ELSE IF Window(r.bench) \subseteq Usable(r.bench)
    THEN [r EXCEPT !.bench = generate_expected(r.bench)]
    ELSE [r EXCEPT !.end = "crashed"]

\* the passes a stream can make the loop consume: all-wildcard passes, then
\* one more
AllWild(len) == [i \in 1..len |-> <<FALSE, 0>>]

PassRuns(len) ==
    {<<d>> : d \in PassDraws(len)}
    \cup {[i \in 1..n |-> IF i < n THEN AllWild(len) ELSE d] :
            n \in 2..MaxPasses, d \in PassDraws(len)}

\* generate(), lines 199-258, on the values d the distributions draw
generate(b, d, guarded) ==
    LET b1 == generate_window(b, d.variation)
        b2 == generate_length(b1, d.pattern_length)
        p  == pattern_loop(b2, d.passes, TRUE)
        r0 == [bench |-> p.bench, end |-> "returned", stamped |-> {}, written |-> {},
               spinning |-> p.spinning \/ p.left > 0, passes |-> Len(d.passes) - p.left]
    IN  oracle_step(stamp_loop(r0, d.offsets, 1, guarded, d.trap))

\* whether a stray write traps is open only when the window leaves the region
TrapChoices(b) == IF Window(b) \subseteq Usable(b) THEN {FALSE} ELSE BOOLEAN

\* one generate() call on reg, over the values its distributions can draw;
\* Returned(r) says what the caller keeps of the outcome r
GenerateOn(Returned(_)) ==
    \E variation \in 0..MaxVariation, pattern_length \in LenMin..LenMax,
       result_count \in CountMin..CountMax :
      \E passes \in PassRuns(pattern_length),
         offsets \in SeqsOfLen(StampRange(generate_length(
                        generate_window(reg, variation), pattern_length)), result_count),
         trap \in TrapChoices(generate_window(reg, variation)) :
        \E r \in {generate(reg, [variation |-> variation,
                                  pattern_length |-> pattern_length,
                                  passes |-> passes, offsets |-> offsets,
                                  trap |-> trap], env.protect_ok)} :
          /\ ~r.spinning
          /\ reg' = r.bench
          /\ pc' = (IF r.end = "returned" THEN "scan" ELSE r.end)
          /\ Returned(r)

\* main, line 325: reg.generate()
Generate ==
    /\ pc = "generate"
    /\ GenerateOn(LAMBDA r : TRUE)
    /\ scan_k' = 1
    /\ UNCHANGED <<env, source, genVars, test_i, PATTERNS, Failed, Elapsed, calls,
                   faulted, misses, chkVars, twin>>

\* what a scanner may hand back: the right answer, the right answer with one
\* address dropped, with one address added, or with one address repeated
ScannerResults(b) ==
    LET exact == Ascending({(b.data_ + o) % SizeMod : o \in b.expected_})
        near  == ((b.data_ - 1) .. (b.data_ + b.size_)) \ Range(exact)
    IN  {exact}
        \cup {SelectSeq(exact, LAMBDA a : a # x) : x \in Range(exact)}
        \cup {Append(exact, a) : a \in near}
        \cup {Append(exact, x) : x \in Range(exact)}

\* the relative offsets of a list of addresses: each address minus the
\* window base, duplicates collapsed
Offsets(b, res) == {res[i] - b.data_ : i \in 1..Len(res)}

\* (a loop whose catch block lets the exception out)
AfterScannerRethrow(fault) ==
    IF fault THEN [pc |-> "terminated", scan_k |-> scan_k, test_i |-> test_i]
    ELSE IF scan_k < Len(PATTERNS)
    THEN [pc |-> "scan", scan_k |-> scan_k + 1, test_i |-> test_i]
    ELSE IF test_i + 1 < TEST_COUNT
    THEN [pc |-> "generate", scan_k |-> 1, test_i |-> test_i + 1]
    ELSE [pc |-> "sort", scan_k |-> 1, test_i |-> test_i + 1]

\* where main goes after the scanner at scan_k, whether its Scan threw
\* (lines 343-349 catch everything) or not: the next scanner, the next
\* scenario, or the sort
AfterScanner(fault) ==
    IF scan_k < Len(PATTERNS)
    THEN [pc |-> "scan", scan_k |-> scan_k + 1, test_i |-> test_i]
    ELSE IF test_i + 1 < TEST_COUNT
    THEN [pc |-> "generate", scan_k |-> 1, test_i |-> test_i + 1]
    ELSE [pc |-> "sort", scan_k |-> 1, test_i |-> test_i + 1]

\* (a catch block that forgets Failed++)
RunScannerSilentCatch(fault, res, cycles) ==
    LET s    == PATTERNS[scan_k]
        bad  == IF fault THEN FALSE ELSE ~check_results(reg, res)
        diff == fault \/ Offsets(reg, res) # reg.expected_
    IN  /\ Failed'  = [Failed EXCEPT ![s] = @ + (IF bad THEN 1 ELSE 0)]
        /\ Elapsed' = [Elapsed EXCEPT ![s] = @ + cycles]
        /\ calls'   = Append(calls, <<test_i, s>>)
        /\ faulted' = (faulted \/ fault)
        /\ misses'  = [misses EXCEPT ![s] = @ + (IF diff THEN 1 ELSE 0)]
        /\ pc'      = AfterScanner(fault).pc
        /\ scan_k'  = AfterScanner(fault).scan_k
        /\ test_i'  = AfterScanner(fault).test_i

\* main, lines 329-353: the body of the loop over PATTERNS
RunScanner(fault, res, cycles) ==
    LET s    == PATTERNS[scan_k]
        bad  == IF fault THEN TRUE ELSE ~check_results(reg, res)
        diff == fault \/ Offsets(reg, res) # reg.expected_
    IN  /\ Failed'  = [Failed EXCEPT ![s] = @ + (IF bad THEN 1 ELSE 0)]
        /\ Elapsed' = [Elapsed EXCEPT ![s] = @ + cycles]
        /\ calls'   = Append(calls, <<test_i, s>>)
        /\ faulted' = (faulted \/ fault)
        /\ misses'  = [misses EXCEPT ![s] = @ + (IF diff THEN 1 ELSE 0)]
        /\ pc'      = AfterScanner(fault).pc
        /\ scan_k'  = AfterScanner(fault).scan_k
        /\ test_i'  = AfterScanner(fault).test_i

ScanStep ==
    /\ pc = "scan"
    /\ \E cycles \in 1..MaxCycles :
         \/ RunScanner(TRUE, <<>>, cycles)
         \/ \E res \in ScannerResults(reg) : RunScanner(FALSE, res, cycles)
    /\ UNCHANGED <<env, source, reg, genVars, PATTERNS, chkVars, twin>>

\* (a comparator that ranks by speed first)
RankLessBySpeed(lhs, rhs) ==
    IF Elapsed[lhs] # Elapsed[rhs]
    THEN Elapsed[lhs] < Elapsed[rhs]
    ELSE Failed[lhs] < Failed[rhs]

\* the comparator of main's std::sort, lines 358-365
RankLess(lhs, rhs) ==
    IF Failed[lhs] # Failed[rhs]
    THEN Failed[lhs] < Failed[rhs]
    ELSE Elapsed[lhs] < Elapsed[rhs]

\* std::sort: some permutation in which no element is less than an earlier one
SortOutcomes(q) ==
    {p \in SeqsOfLen(Range(q), Len(q)) :
        /\ \A x \in Range(q) :
             Cardinality({i \in 1..Len(p) : p[i] = x})
                = Cardinality({i \in 1..Len(q) : q[i] = x})
        /\ \A i, j \in 1..Len(p) : i < j => ~RankLess(p[j], p[i])}

\* main, lines 357-365
Sort ==
    /\ pc = "sort"
    /\ PATTERNS' \in SortOutcomes(PATTERNS)
    /\ pc' = "done"
    /\ UNCHANGED <<env, source, reg, genVars, test_i, scan_k, Failed, Elapsed,
                   calls, faulted, misses, chkVars, twin>>

Next ==
    \/ Reset
    \/ Generate
    \/ ScanStep
    \/ Sort

Spec == Init /\ [][Next]_vars

\* ---------------------------------------------------- properties of main
Rank(s) == CHOOSE i \in 1..Len(PATTERNS) : PATTERNS[i] = s

IsPermutation(p, q) ==
    /\ Len(p) = Len(q)
    /\ \A x \in Range(p) \cup Range(q) :
         Cardinality({i \in 1..Len(p) : p[i] = x})
            = Cardinality({i \in 1..Len(q) : q[i] = x})

\* C2: after the final sort the registry is a permutation of the registered
\* scanners in which fewer failures rank first whatever the cycles, and
\* among equal failures fewer cycles rank first.
RankingOrder ==
    pc = "done" =>
       /\ IsPermutation(PATTERNS, Registration)
       /\ \A a, b \in Scanners :
            /\ Failed[a] < Failed[b] => Rank(a) < Rank(b)
            /\ (Failed[a] = Failed[b] /\ Elapsed[a] < Elapsed[b]) => Rank(a) < Rank(b)

\* a ranking in which the sort moved a slower but more correct scanner up
RankingOrderWitness ==
    /\ pc = "done"
    /\ PATTERNS # Registration
    /\ \E a, b \in Scanners :
         Failed[a] < Failed[b] /\ Elapsed[a] > Elapsed[b] /\ Rank(a) < Rank(b)

\* the invocation order main's loops give: scenario by scenario, and in
\* each scenario every scanner once, in registration order
InOrder(n) == <<(n - 1) \div NumScanners, Registration[((n - 1) % NumScanners) + 1]>>

FailedCounts ==
    /\ [](Failed = misses)
    /\ [][calls' # calls =>
            LET s == calls'[Len(calls')][2]
            IN  /\ Failed'[s] - Failed[s] \in {0, 1}
                /\ \A t \in Scanners \ {s} :
                     Failed'[t] = Failed[t] /\ Elapsed'[t] = Elapsed[t]]_vars

\* a finished run in which one scanner failed and another never did
FailedCountsWitness ==
    /\ pc = "done"
    /\ \E s, t \in Scanners : Failed[s] = TEST_COUNT /\ Failed[t] = 0 /\ misses[s] = TEST_COUNT

\* ------------------------------------------------- scan_bench on its own
\* A caller that resets a scan_bench and then calls generate() again and
\* again, on every input: main's loop without the scanners.
\* generate(), with the history of what it stamped and wrote
GenerateCall ==
    /\ pc \in {"generate", "scan"}
    /\ GenerateOn(LAMBDA r : /\ stamped' = r.stamped
                           /\ written' = r.written
                           /\ passes_run' = r.passes)
    /\ before' = reg.mem
    /\ UNCHANGED <<env, source, mainVars, chkVars, twin>>

InitBench == Start(SmallSources, Envs)

NextBench ==
    \/ Reset
    \/ GenerateCall

SpecBench == InitBench /\ [][NextBench]_vars


\* --------------------------------------------- properties of scan_bench
\* the byte of the window at relative offset o
WindowByte(o) == reg.mem[(reg.data_ - reg.full_data_) + o + 1]

\* the offsets at which the masked pattern occurs in the window as it is now
Occurrences ==
    {o \in 0..(reg.size_ - Len(reg.pattern_)) :
        \A j \in 1..Len(reg.pattern_) :
            reg.masks_[j] = "x" => WindowByte(o + j - 1) = reg.pattern_[j]}

\* C5: whenever generate() has returned, the expected set is the set of
\* offsets at which every fixed position of the pattern matches the window
\* bytes as all stamps so far have left them.
ExpectedIsGroundTruth ==
    pc = "scan" => reg.expected_ = Occurrences

\* a scenario whose expected set omits an offset that was stamped
ExpectedIsGroundTruthWitness ==
    /\ pc = "scan"
    /\ reg.expected_ # {}
    /\ \E o \in stamped : o \notin reg.expected_

\* C6: once generate() has produced a pattern, the mask is as long as the
\* pattern, LenMin..LenMax long, made of 'x' and '?', with at least one 'x',
\* and the pattern byte under every '?' is 0.
MaskHasFixedPosition ==
    reg.pattern_ # <<>> =>
       /\ Len(reg.masks_) = Len(reg.pattern_)
       /\ Len(reg.masks_) \in LenMin..LenMax
       /\ \A i \in 1..Len(reg.masks_) :
            /\ reg.masks_[i] \in {"x", "?"}
            /\ reg.masks_[i] = "?" => reg.pattern_[i] = 0
       /\ \E i \in 1..Len(reg.masks_) : reg.masks_[i] = "x"

\* a generate() whose first pass came out all wildcards and was redone
MaskHasFixedPositionWitness ==
    /\ pc = "scan"
    /\ passes_run > 1
    /\ \E i \in 1..Len(reg.masks_) : reg.masks_[i] = "?"

\* C10, as claimed: on every input reset accepts, on a platform where the
\* setup succeeds, generate() keeps the
\* window inside the usable region, ending at the trailing guard page,
\* stamps only at offsets 0..size - pattern_length, writes only bytes of
\* the window under a fixed position, and leaves every other byte alone.
WindowNeverLeavesRegion ==
    (env.file_ok /\ env.alloc_ok /\ env.protect_ok /\ reg.pattern_ # <<>>) =>
       /\ reg.data_ - reg.full_data_ \in 0..MaxVariation
       /\ reg.data_ + reg.size_ = reg.full_data_ + reg.full_size_
       /\ stamped \subseteq 0..(reg.size_ - Len(reg.pattern_))
       /\ written \subseteq reg.data_..(reg.data_ + reg.size_ - 1)
       /\ written \cap GuardPages(reg) = {}
       /\ written \subseteq {reg.data_ + o + j - 1 :
                               o \in stamped,
                               j \in {k \in 1..Len(reg.masks_) : reg.masks_[k] = "x"}}
       /\ Len(before) = Len(reg.mem)
       /\ \A i \in 1..Len(reg.mem) :
            (reg.full_data_ + i - 1) \notin written => reg.mem[i] = before[i]

\* C9, as claimed: when the file cannot be read, or the allocation or a
\* protection change fails, no scenario is generated and no scanner runs.
SetupFailureIsFatal ==
    (~env.file_ok \/ ~env.alloc_ok \/ ~env.protect_ok) =>
       /\ reg.pattern_ = <<>>
       /\ calls = <<>>

\* ---------------------------------------------------------- reset alone
InitReset == Start(Sources, Envs)

SpecReset == InitReset /\ [][Reset]_vars

\* C8: reset with supplied content rounds the size up to whole pages,
\* zero-fills the front of the usable region and puts the content,
\* unchanged, at its end; there is no padding when the size is a whole
\* number of pages.
ContentRightAligned ==
    (pc = "generate" /\ source.file) =>
       LET n     == Len(source.bytes)
           extra == reg.full_size_ - n
       IN  /\ reg.full_size_ % PageSize = 0
           /\ extra \in 0..(PageSize - 1)
           /\ Len(reg.mem) = reg.full_size_
           /\ \A i \in 1..extra : reg.mem[i] = 0
           /\ \A k \in 1..n : reg.mem[extra + k] = source.bytes[k]

\* a file of more than one page, not a whole number of pages, without a zero
ContentRightAlignedWitness ==
    /\ pc = "generate"
    /\ source.file
    /\ Len(source.bytes) > PageSize
    /\ Len(source.bytes) % PageSize # 0
    /\ \A k \in 1..Len(source.bytes) : source.bytes[k] # 0
    /\ reg.mem[1] = 0


\* ------------------------------------------------- check_results alone
\* A scan_bench on random data, a scenario generated, and check_results
\* handed every list of at most MaxResults addresses in or next to the
\* window.
OkEnv == [file_ok |-> TRUE, alloc_ok |-> TRUE, protect_ok |-> TRUE]

InitVerify == Start({src \in Sources : ~src.file}, {OkEnv})

Nearby(b) == (b.data_ - 1) .. (b.data_ + b.size_)

Verify ==
    /\ pc = "scan"
    /\ \E res \in SeqsUpTo(Nearby(reg), MaxResults) :
         /\ results' = res
         /\ verdict' = check_results(reg, res)
    /\ pc' = "verified"
    /\ UNCHANGED <<env, source, reg, genVars, mainVars, twin>>

NextScenario ==
    /\ pc = "verified"
    /\ pc' = "generate"
    /\ results' = <<>>
    /\ verdict' = TRUE
    /\ UNCHANGED <<env, source, reg, genVars, mainVars, twin>>

NextVerify ==
    \/ Reset
    \/ Generate
    \/ Verify
    \/ NextScenario

SpecVerify == InitVerify /\ [][NextVerify]_vars

\* C1: check_results returns true exactly when the offsets of the returned
\* addresses, as a set, are the expected set; so an equal set passes, and
\* an equal set with one offset added or one removed fails.
VerdictIsSetEquality ==
    pc = "verified" => (verdict <=> Offsets(reg, results) = reg.expected_)

\* a list rejected although it holds every expected offset, for one offset
\* more; the list repeats an address
VerdictIsSetEqualityWitness ==
    /\ pc = "verified"
    /\ ~verdict
    /\ reg.expected_ \subseteq Offsets(reg, results)
    /\ Cardinality(Offsets(reg, results) \ reg.expected_) = 1
    /\ Len(results) > Cardinality(Offsets(reg, results))


\* ------------------------------------------------------------- the rng
\* The generator is a multiplicative congruential one, as minstd_rand0 is,
\* with a small modulus; the twister seeded from it is modelled by the same
\* generator, advanced once per word drawn.  Every distribution call draws
\* one word.
rng_next(x) == (x * RngMul) % RngMod

RECURSIVE rng_advance(_, _)
rng_advance(x, n) == IF n = 0 THEN x ELSE rng_advance(rng_next(x), n - 1)

\* (a create_twister that asks random_device whatever the seed)
create_twister_fresh(seed, entropy) ==
    LET minstd == IF entropy % RngMod = 0 THEN 1 ELSE entropy % RngMod
    IN  [seed |-> entropy, rng |-> rng_advance(minstd, StateWords)]

\* create_twister(seed): the resolved seed and the generator; entropy is
\* what random_device yields
create_twister(seed, entropy) ==
    LET s      == IF seed = 0 THEN entropy ELSE seed
        minstd == IF s % RngMod = 0 THEN 1 ELSE s % RngMod
    IN  [seed |-> s, rng |-> rng_advance(minstd, StateWords)]

\* std::uniform_int_distribution(lo, hi)(rng_), std::bernoulli_distribution(0.9)
uniform_int(x, lo, hi) ==
    [value |-> lo + (rng_next(x) % (hi - lo + 1)), rng |-> rng_next(x)]

bernoulli(x) == [value |-> (rng_next(x) % 10) < 9, rng |-> rng_next(x)]

\* reset, line 153: full_size_ bytes from byte_dist(rng_)
RECURSIVE draw_bytes(_, _)
draw_bytes(x, n) ==
    IF n = 0 THEN [value |-> <<>>, rng |-> x]
    ELSE LET d    == uniform_int(x, 0, ByteMax)
             rest == draw_bytes(d.rng, n - 1)
         IN  [value |-> <<d.value>> \o rest.value, rng |-> rest.rng]

\* generate, lines 223-237: the draws of one pass
RECURSIVE draw_pass(_, _)
draw_pass(x, n) ==
    IF n = 0 THEN [value |-> <<>>, rng |-> x]
    ELSE LET m    == bernoulli(x)
             v    == IF m.value THEN uniform_int(m.rng, 0, ByteMax)
                     ELSE [value |-> 0, rng |-> m.rng]
             rest == draw_pass(v.rng, n - 1)
         IN  [value |-> <<<<m.value, v.value>>>> \o rest.value, rng |-> rest.rng]

\* generate, lines 221-238: the passes drawn until one has a fixed position,
\* at most MaxPasses of them
RECURSIVE draw_passes(_, _, _)
draw_passes(x, len, n) ==
    LET p == draw_pass(x, len)
    IN  IF n = 1 \/ \E i \in 1..len : p.value[i][1]
        THEN [value |-> <<p.value>>, rng |-> p.rng]
        ELSE LET rest == draw_passes(p.rng, len, n - 1)
             IN  [value |-> <<p.value>> \o rest.value, rng |-> rest.rng]

\* generate, lines 246-248: the offsets drawn
RECURSIVE draw_offsets(_, _, _)
draw_offsets(x, n, hi) ==
    IF n = 0 THEN [value |-> <<>>, rng |-> x]
    ELSE LET d    == uniform_int(x, 0, hi)
             rest == draw_offsets(d.rng, n - 1, hi)
         IN  [value |-> <<d.value>> \o rest.value, rng |-> rest.rng]

\* the values generate() draws from rng_ = x on the bench b, in its order
draw_generate(b, x) ==
    LET variation == uniform_int(x, 0, MaxVariation)
        length    == uniform_int(variation.rng, LenMin, LenMax)
        passes    == draw_passes(length.rng, length.value, MaxPasses)
        count     == uniform_int(passes.rng, CountMin, CountMax)
        size      == (b.full_size_ - variation.value) % SizeMod
        offsets   == draw_offsets(count.rng, count.value,
                                  (size - length.value) % SizeMod)
    IN  [value |-> [variation |-> variation.value, pattern_length |-> length.value,
                    passes |-> passes.value, offsets |-> offsets.value, trap |-> TRUE],
         rng |-> offsets.rng]

\* ------------------------------------------------------ two runs replayed
\* Two runs of main side by side, each with its own seed, haystack source
\* and number of registered scanners; scenarios records what each
\* generate() produced.
Runs == 1..2

NewRun(seed, entropy, src, n) ==
    [rng_seed |-> seed, seed_ |-> create_twister(seed, entropy).seed,
     rng_ |-> create_twister(seed, entropy).rng, source |-> src, scanners |-> n,
     reg |-> NewBench, pc |-> "main", test_i |-> 0, scan_k |-> 1,
     faulted |-> FALSE, scenarios |-> <<>>]

InitReplay ==
    /\ twin \in [Runs -> {NewRun(seed, entropy, src, n) :
                            seed \in {RNG_SEED} \cup 1..MaxSeed, entropy \in 0..MaxSeed,
                            src \in SmallSources, n \in Scanners}]
    /\ pc = "replay"
    /\ env = OkEnv
    /\ source = [file |-> FALSE, bytes |-> <<>>]
    /\ reg = NewBench
    /\ before = <<>>
    /\ stamped = {}
    /\ written = {}
    /\ passes_run = 0
    /\ test_i = 0
    /\ scan_k = 1
    /\ PATTERNS = Registration
    /\ Failed = [s \in Scanners |-> 0]
    /\ Elapsed = [s \in Scanners |-> 0]
    /\ calls = <<>>
    /\ faulted = FALSE
    /\ misses = [s \in Scanners |-> 0]
    /\ results = <<>>
    /\ verdict = TRUE

Idle == UNCHANGED <<pc, env, source, reg, genVars, mainVars, chkVars>>

\* main, lines 304-319, in run r
TwinReset(r) ==
    LET t    == twin[r]
        fill == draw_bytes(t.rng_, REGION_SIZE)
    IN  /\ t.pc = "main"
        /\ twin' = [twin EXCEPT ![r] =
              IF t.source.file
              THEN [t EXCEPT !.reg = reset(t.reg, Pointer(t.source.bytes),
                                           Len(t.source.bytes), <<>>, TRUE),
                             !.pc = "generate"]
              ELSE [t EXCEPT !.reg = reset(t.reg, NULL, REGION_SIZE, fill.value, TRUE),
                             !.rng_ = fill.rng,
                             !.pc = "generate"]]
        /\ Idle

\* main, line 325, in run r
TwinGenerate(r) ==
    LET t == twin[r]
        d == draw_generate(t.reg, t.rng_)
        g == generate(t.reg, d.value, TRUE)
    IN  /\ t.pc = "generate"
        /\ ~g.spinning
        /\ twin' = [twin EXCEPT ![r] =
              [t EXCEPT !.reg = g.bench,
                        !.rng_ = d.rng,
                        !.scan_k = 1,
                        !.pc = IF g.end = "returned" THEN "scan" ELSE g.end,
                        !.scenarios = Append(t.scenarios,
                            [data |-> g.bench.data_ - g.bench.full_data_,
                             size |-> g.bench.size_,
                             pattern |-> g.bench.pattern_, masks |-> g.bench.masks_,
                             offsets |-> d.value.offsets, window |-> g.bench.mem,
                             expected |-> g.bench.expected_])]]
        /\ Idle

\* main, lines 329-353, in run r: the scanner returns or throws; neither
\* touches the bench or rng_
TwinScan(r) ==
    LET t == twin[r]
    IN  /\ t.pc = "scan"
        /\ \E fault \in BOOLEAN :
             twin' = [twin EXCEPT ![r] =
                [t EXCEPT !.faulted = t.faulted \/ fault,
                          !.scan_k = IF t.scan_k < t.scanners THEN t.scan_k + 1 ELSE 1,
                          !.test_i = IF t.scan_k < t.scanners THEN t.test_i
                                     ELSE t.test_i + 1,
                          !.pc = IF t.scan_k < t.scanners THEN "scan"
                                 ELSE IF t.test_i + 1 < TEST_COUNT THEN "generate"
                                 ELSE "done"]]
        /\ Idle

NextReplay == \E r \in Runs : TwinReset(r) \/ TwinGenerate(r) \/ TwinScan(r)

SpecReplay == InitReplay /\ [][NextReplay]_vars

\* C7: two runs started with the same non-zero seed on the same haystack
\* source produce the same scenarios, one by one: window offset and size,
\* pattern, mask, stamp offsets, window contents and expected set,
\* whatever scanners are registered and whatever they do.
ReplayIsExact ==
    (/\ twin[1].rng_seed = twin[2].rng_seed
     /\ twin[1].rng_seed # 0
     /\ twin[1].source = twin[2].source) =>
       \A k \in 1..Len(twin[1].scenarios) :
           k <= Len(twin[2].scenarios) => twin[1].scenarios[k] = twin[2].scenarios[k]

\* two finished runs of one seed on random data, with different numbers of
\* scanners, one with a fault and one without
ReplayIsExactWitness ==
    /\ twin[1].rng_seed = twin[2].rng_seed
    /\ twin[1].rng_seed # 0
    /\ twin[1].source = twin[2].source
    /\ ~twin[1].source.file
    /\ twin[1].scanners # twin[2].scanners
    /\ twin[1].faulted /\ ~twin[2].faulted
    /\ twin[1].pc = "done" /\ twin[2].pc = "done"
    /\ Len(twin[1].scenarios) = TEST_COUNT
    /\ twin[1].scenarios[1] # twin[1].scenarios[TEST_COUNT]

====
